---- MODULE Spec2Model ----
(***************************************************************************)
(* A model of the UNO engine of src/uno: the cards and their validity      *)
(* rule (cards.py), the players' move (player.py), the rotation and the    *)
(* game loop (game.py).                                                    *)
(*                                                                         *)
(* A card is the integer Card.code() gives it, 100*_color + _id: Card's    *)
(* __eq__ and __lt__ compare nothing else, and list.remove and list.sort   *)
(* use only them.  A deck is the sequence Deck._cards, top at the end.     *)
(***************************************************************************)
EXTENDS Integers, Sequences, FiniteSets, TLC

VARIABLES
    pc,            \* position in Game.play
    num_players,   \* PlayerList._num_players
    spec,          \* the one entry of specs: every seat is of that kind
    main_deck,     \* Game.main_deck._cards
    discard_deck,  \* Game.discard_deck._cards
    active_cards,  \* Game.active_cards
    active_color,  \* Game.active_color
    hands,         \* hands[i]: PlayerList._players[i]._hand._cards
    index,         \* PlayerList._index
    dir,           \* PlayerList._dir
    ctr,           \* the round counter of Game.play
    cards,         \* the list the current player's move returned
    new_card,      \* the card drawn for a player who passed
    shown,         \* the copy of the current hand taken when the move is requested
    last,          \* what the last turn narrated through IO.write / print
    winner,        \* the player reported as done, -1 while there is none
    result         \* what a call made on its own returned (the game leaves it alone)

vars == <<pc, num_players, spec, main_deck, discard_deck, active_cards,
          active_color, hands, index, dir, ctr, cards, new_card, shown,
          last, winner, result>>

-----------------------------------------------------------------------------
(* Bounds of the model.                                                    *)

\* Game.play's loop is followed for this many rounds with automated players
MaxRounds == 5

\* and for this many with interactive players, who may submit any card
MaxHumanRounds == 3

\* The shuffles Deck.shuffle may produce that the model starts from: 1..MaxShuffle.
MaxShuffle == 4

\* The longest candidate list handed to Card.is_valid_play on its own
MaxPlayed == 2

\* PlayerList on its own: up to MaxPlayers players, MaxOps operations
MaxPlayers == 4
MaxOps == 4

\* The games constructed: Game(num_players = g[1], specs = [g[2]]), every
\* player of the one kind given.
Games == {<<2, "ai">>, <<3, "ai">>, <<4, "ai">>, <<15, "ai">>, <<2, "human">>}

-----------------------------------------------------------------------------
(* cards.py: the constants.                                                *)

NUMERIC == "num"
\* ACTION of cards.py (a reserved word here)
ACTION_TYPE == "action"
WILD == "wild"

ACTION_CARDS == [skip |-> 11, reverse |-> 12, draw2 |-> 13]
WILD_CARDS == [draw4 |-> 21, wild |-> 22]
COLORS == [red |-> 1, green |-> 2, blue |-> 3, yellow |-> 4]

\* list(COLORS), list(ACTION_CARDS), list(WILD_CARDS): the keys in insertion order
ColorList == <<"red", "green", "blue", "yellow">>
ActionList == <<"skip", "reverse", "draw2">>
WildList == <<"draw4", "wild">>

CARD_NAMES == [i \in (0..9) \cup {11, 12, 13, 21, 22} |->
                 CASE i = 0 -> "0" [] i = 1 -> "1" [] i = 2 -> "2" [] i = 3 -> "3"
                   [] i = 4 -> "4" [] i = 5 -> "5" [] i = 6 -> "6" [] i = 7 -> "7"
                   [] i = 8 -> "8" [] i = 9 -> "9" [] i = 11 -> "skip"
                   [] i = 12 -> "reverse" [] i = 13 -> "draw2"
                   [] i = 21 -> "draw4" [] i = 22 -> "wild"]

COLOR_NAMES == [i \in 1..4 |-> ColorList[i]]

\* Python's None
None == "none"

-----------------------------------------------------------------------------
(* cards.py: Card.                                                         *)

\* Card.__init__: the card with _id and _color, as its code
Card(ctype, id, color) ==
    IF ctype = WILD THEN id ELSE 100 * COLORS[color] + id

code(c) == c
card_id(c) == c % 100
card_color(c) == c \div 100

\* Card._ctype, which __init__ ties to the id table the name is looked up in
ctype(c) ==
    IF card_id(c) \in {WILD_CARDS.draw4, WILD_CARDS.wild} THEN WILD
    ELSE IF card_id(c) \in {ACTION_CARDS.skip, ACTION_CARDS.reverse, ACTION_CARDS.draw2}
         THEN ACTION_TYPE
    ELSE NUMERIC

is_numeric(c) == ctype(c) = NUMERIC
is_action(c) == ctype(c) = ACTION_TYPE
is_wild(c) == ctype(c) = WILD

is_stackable(c) == card_id(c) \in {WILD_CARDS.draw4, ACTION_CARDS.draw2}

\* the id property: the card's name
id(c) == CARD_NAMES[card_id(c)]

\* the color property
color(c) == IF card_color(c) # 0 THEN COLOR_NAMES[card_color(c)] ELSE None

\* is_valid_play with the rank comparison forgotten
is_valid_play_outcome_no_rank(top, played_cards, acolor) ==
    IF Len(played_cards) = 0 THEN "True"
    ELSE IF Len(played_cards) > 1 THEN "NotImplementedError"
    ELSE LET card == played_cards[1] IN
         IF is_wild(card) THEN "True"
         ELSE IF is_wild(top) THEN
              IF acolor = None THEN "ValueError"
              ELSE IF color(card) = acolor THEN "True"
              ELSE "None"
         ELSE IF color(card) = color(top) THEN "True"
         ELSE "False"

\* is_valid_play comparing the card with the active color instead of the
\* top card's own color
is_valid_play_outcome_active_color(top, played_cards, acolor) ==
    IF Len(played_cards) = 0 THEN "True"
    ELSE IF Len(played_cards) > 1 THEN "NotImplementedError"
    ELSE LET card == played_cards[1] IN
         IF is_wild(card) THEN "True"
         ELSE IF is_wild(top) THEN
              IF acolor = None THEN "ValueError"
              ELSE IF color(card) = acolor THEN "True"
              ELSE "None"
         ELSE IF color(card) = acolor THEN "True"
         ELSE "False"

\* Card.is_valid_play(self = top, played_cards, active_color): what the call
\* gives, a value returned ("True", "False", or "None" when the function
\* falls off its end) or the exception raised
is_valid_play_outcome(top, played_cards, acolor) ==
    IF Len(played_cards) = 0 THEN "True"
    ELSE IF Len(played_cards) > 1 THEN "NotImplementedError"
    ELSE LET card == played_cards[1] IN
         IF is_wild(card) THEN "True"
         ELSE IF is_wild(top) THEN
              IF acolor = None THEN "ValueError"
              ELSE IF color(card) = acolor THEN "True"
              ELSE "None"
         ELSE IF color(card) = color(top) \/ id(card) = id(top) THEN "True"
         ELSE "False"

\* the call read as accepted unless it returned False
is_valid_play_not_false(top, played_cards, acolor) ==
    is_valid_play_outcome(top, played_cards, acolor) # "False"

\* the truth value Game.play and get_playable_cards read off the call
is_valid_play(top, played_cards, acolor) ==
    is_valid_play_outcome(top, played_cards, acolor) = "True"

-----------------------------------------------------------------------------
(* cards.py: Deck.                                                         *)

\* Deck.create_full_deck
create_full_deck ==
    [k \in 1..72 |-> Card(NUMERIC, ((k - 1) \div 8) + 1, ColorList[(((k - 1) % 8) \div 2) + 1])]
    \o [k \in 1..4 |-> Card(NUMERIC, 0, ColorList[k])]
    \o [k \in 1..24 |-> Card(ACTION_TYPE, ACTION_CARDS[ActionList[((k - 1) \div 8) + 1]],
                             ColorList[(((k - 1) % 8) \div 2) + 1])]
    \o [k \in 1..8 |-> Card(WILD, WILD_CARDS[WildList[((k - 1) \div 4) + 1]], "")]

DeckSize == Len(create_full_deck)

\* Deck.shuffle: random.shuffle gives any permutation; the model starts from
\* the created deck riffled k times (the two halves interleaved, the top
\* card staying on top).
riffle(deck) ==
    [i \in 1..Len(deck) |->
        IF i % 2 = 0 THEN deck[(Len(deck) \div 2) + (i \div 2)] ELSE deck[(i + 1) \div 2]]

RECURSIVE shuffle(_, _)
shuffle(deck, k) == IF k = 0 THEN deck ELSE riffle(shuffle(deck, k - 1))

\* Deck.add_cards with a list: each card appended in turn
add_cards(deck, cs) == deck \o cs

\* Deck.remove_all: the cards returned, the deck cleared
remove_all(deck) == deck

\* list.remove: the first card equal to c is taken out
RECURSIVE ListRemove(_, _)
ListRemove(deck, c) ==
    IF deck = <<>> THEN <<>>
    ELSE IF Head(deck) = c THEN Tail(deck)
    ELSE <<Head(deck)>> \o ListRemove(Tail(deck), c)

InList(deck, c) == \E i \in 1..Len(deck) : deck[i] = c

\* Deck.remove_cards(card, num): up to num copies removed, num = 0 meaning
\* all of them; the deck that is left
RECURSIVE RemoveLoop(_, _, _)
RemoveLoop(deck, c, n) ==
    IF n = 0 \/ ~InList(deck, c) THEN deck
    ELSE RemoveLoop(ListRemove(deck, c), c, n - 1)

remove_cards(deck, c, num) ==
    RemoveLoop(deck, c, IF num = 0 THEN Len(deck) ELSE num)

\* Deck.sort: list.sort by Card.__lt__, i.e. by code
RECURSIVE SortInsert(_, _)
SortInsert(s, c) ==
    IF s = <<>> THEN <<c>>
    ELSE IF code(c) < code(Head(s)) THEN <<c>> \o s
    ELSE <<Head(s)>> \o SortInsert(Tail(s), c)

RECURSIVE sort(_)
sort(s) == IF s = <<>> THEN <<>> ELSE SortInsert(sort(Tail(s)), Head(s))

\* Player.add_cards with one card: appended to the hand, the hand sorted
player_add_card(hand, c) == sort(Append(hand, c))

\* Player.add_cards with a list
player_add_cards(hand, cs) == sort(add_cards(hand, cs))

-----------------------------------------------------------------------------
(* game.py: PlayerList.                                                    *)

\* _next_index without the wrap-around
next_index_no_wrap(cur, d, n, skip) == cur + d * ((IF skip THEN 1 ELSE 0) + 1)

\* PlayerList._next_index
next_index(cur, d, n, skip) == (cur + d * ((IF skip THEN 1 ELSE 0) + 1)) % n

\* PlayerList.flip_direction
flip_direction(d) == d * 1

-----------------------------------------------------------------------------
(* game.py: Game.draw_new_card, on the piles [main, discard].  ok is FALSE *)
(* when EmptyDeckError leaves it: both piles were empty.  recycled tells   *)
(* that the discard pile was moved into the main deck (line 175 printed).  *)

\* draw_new_card taking the oldest discarded card after a recycle
draw_new_card_oldest(m, d) ==
    IF m # <<>>
    THEN [ok |-> TRUE, card |-> m[Len(m)], main |-> SubSeq(m, 1, Len(m) - 1),
          discard |-> d, recycled |-> FALSE]
    ELSE LET m2 == add_cards(m, remove_all(d)) IN
         IF m2 # <<>>
         THEN [ok |-> TRUE, card |-> m2[1], main |-> Tail(m2), discard |-> <<>>,
               recycled |-> TRUE]
         ELSE [ok |-> FALSE, card |-> 0, main |-> <<>>, discard |-> <<>>, recycled |-> TRUE]

\* draw_new_card with the second EmptyDeckError swallowed: nothing is drawn
draw_new_card_no_error(m, d) ==
    IF m # <<>>
    THEN [ok |-> TRUE, card |-> m[Len(m)], main |-> SubSeq(m, 1, Len(m) - 1),
          discard |-> d, recycled |-> FALSE]
    ELSE LET m2 == add_cards(m, remove_all(d)) IN
         IF m2 # <<>>
         THEN [ok |-> TRUE, card |-> m2[Len(m2)],
               main |-> SubSeq(m2, 1, Len(m2) - 1), discard |-> <<>>, recycled |-> TRUE]
         ELSE [ok |-> TRUE, card |-> 0, main |-> <<>>, discard |-> <<>>, recycled |-> TRUE]

draw_new_card(m, d) ==
    IF m # <<>>
    THEN [ok |-> TRUE, card |-> m[Len(m)], main |-> SubSeq(m, 1, Len(m) - 1),
          discard |-> d, recycled |-> FALSE]
    ELSE LET m2 == add_cards(m, remove_all(d)) IN
         IF m2 # <<>>
         THEN [ok |-> TRUE, card |-> m2[Len(m2)],
               main |-> SubSeq(m2, 1, Len(m2) - 1), discard |-> <<>>, recycled |-> TRUE]
         ELSE [ok |-> FALSE, card |-> 0, main |-> <<>>, discard |-> <<>>, recycled |-> TRUE]

\* k calls of players[p].add_cards(self.draw_new_card()), stopping at the
\* first that raises.  st = [ok, main, discard, hands, recycled].
RECURSIVE DrawInto(_, _, _)
DrawInto(st, p, k) ==
    IF k = 0 \/ ~st.ok THEN st
    ELSE LET r == draw_new_card(st.main, st.discard) IN
         IF ~r.ok
         THEN [st EXCEPT !.ok = FALSE, !.main = r.main, !.discard = r.discard,
                         !.recycled = TRUE]
         ELSE DrawInto([ok |-> TRUE, main |-> r.main, discard |-> r.discard,
                        hands |-> [st.hands EXCEPT ![p] = player_add_card(@, r.card)],
                        recycled |-> st.recycled \/ r.recycled],
                       p, k - 1)

\* Game.deal_cards: num_cards rounds, in each one card to every player in
\* the order of PlayerList.__iter__ (from the current index upwards).
\* t counts the cards dealt so far.
RECURSIVE DealLoop(_, _, _, _, _)
DealLoop(st, n, cur, t, total) ==
    IF t = total \/ ~st.ok THEN st
    ELSE DealLoop(DrawInto(st, (cur + (t % n)) % n, 1), n, cur, t + 1, total)

NumCards == 7

\* deal_cards one round short
deal_cards_short(st, n, cur) == DealLoop(st, n, cur, 0, (NumCards - 1) * n)

deal_cards(st, n, cur) == DealLoop(st, n, cur, 0, NumCards * n)

-----------------------------------------------------------------------------
(* game.py: Game.                                                          *)

\* Game.get_active_color: the colors it may return with this top card;
\* Player.choose_color is random.choice(list(COLORS)).
\* get_active_color without the choice for a wild card
get_active_color_top(top) == {color(top)}

get_active_color(top) ==
    IF is_wild(top) THEN {ColorList[i] : i \in 1..Len(ColorList)} ELSE {color(top)}

\* play_card with the skip flag forgotten after DrawTwo / WildDrawFour
play_card_draw_no_skip(card, st, idx, d, n) ==
    IF id(card) = "skip" THEN [st |-> st, dir |-> d, skip |-> TRUE]
    ELSE IF id(card) = "reverse" THEN
        IF n > 2 THEN [st |-> st, dir |-> flip_direction(d), skip |-> FALSE]
        ELSE [st |-> st, dir |-> d, skip |-> TRUE]
    ELSE IF id(card) = "draw2" THEN
        [st |-> DrawInto(st, next_index(idx, d, n, FALSE), 2), dir |-> d, skip |-> FALSE]
    ELSE IF id(card) = "draw4" THEN
        [st |-> DrawInto(st, next_index(idx, d, n, FALSE), 4), dir |-> d, skip |-> FALSE]
    ELSE [st |-> st, dir |-> d, skip |-> FALSE]

\* play_card with Reverse flipping the direction whatever the player count
play_card_reverse_always_flips(card, st, idx, d, n) ==
    IF id(card) = "skip" THEN [st |-> st, dir |-> d, skip |-> TRUE]
    ELSE IF id(card) = "reverse" THEN
        [st |-> st, dir |-> flip_direction(d), skip |-> FALSE]
    ELSE IF id(card) = "draw2" THEN
        [st |-> DrawInto(st, next_index(idx, d, n, FALSE), 2), dir |-> d, skip |-> TRUE]
    ELSE IF id(card) = "draw4" THEN
        [st |-> DrawInto(st, next_index(idx, d, n, FALSE), 4), dir |-> d, skip |-> TRUE]
    ELSE [st |-> st, dir |-> d, skip |-> FALSE]

\* play_card with the skip flag forgotten after Skip
play_card_skip_no_flag(card, st, idx, d, n) ==
    IF id(card) = "skip" THEN [st |-> st, dir |-> d, skip |-> FALSE]
    ELSE IF id(card) = "reverse" THEN
        IF n > 2 THEN [st |-> st, dir |-> flip_direction(d), skip |-> FALSE]
        ELSE [st |-> st, dir |-> d, skip |-> TRUE]
    ELSE IF id(card) = "draw2" THEN
        [st |-> DrawInto(st, next_index(idx, d, n, FALSE), 2), dir |-> d, skip |-> TRUE]
    ELSE IF id(card) = "draw4" THEN
        [st |-> DrawInto(st, next_index(idx, d, n, FALSE), 4), dir |-> d, skip |-> TRUE]
    ELSE [st |-> st, dir |-> d, skip |-> FALSE]

\* Game.play_card for the player at idx: the piles and hands after the
\* card's effect, the direction, and the skip flag.
play_card(card, st, idx, d, n) ==
    IF id(card) = "skip" THEN [st |-> st, dir |-> d, skip |-> TRUE]
    ELSE IF id(card) = "reverse" THEN
        IF n > 2 THEN [st |-> st, dir |-> flip_direction(d), skip |-> FALSE]
        ELSE [st |-> st, dir |-> d, skip |-> TRUE]
    ELSE IF id(card) = "draw2" THEN
        [st |-> DrawInto(st, next_index(idx, d, n, FALSE), 2), dir |-> d, skip |-> TRUE]
    ELSE IF id(card) = "draw4" THEN
        [st |-> DrawInto(st, next_index(idx, d, n, FALSE), 4), dir |-> d, skip |-> TRUE]
    ELSE [st |-> st, dir |-> d, skip |-> FALSE]

\* The active stack and the discard pile after execute_turn's first lines
\* the active stack replaced whatever the card
StackAfter_always_replace(cs) == cs

StackAfter(cs) == IF is_stackable(cs[1]) THEN active_cards \o cs ELSE cs
DiscardAfter(cs) ==
    IF is_stackable(cs[1]) THEN discard_deck ELSE add_cards(discard_deck, active_cards)

\* is_done never answering yes
is_done_never(hand) == FALSE

\* is_done answering yes with one card left
is_done_one_left(hand) == Len(hand) <= 1

\* Player.is_done
is_done(hand) == hand = <<>>

\* Game.execute_turn(cs), then the end of the loop body (lines 164-167):
\* the current player after the update is the one asked whether it is done.
\* An EmptyDeckError inside play_card leaves the loop before the update.
execute_turn(cs, op) ==
    LET act == StackAfter(cs)
        eff == play_card(cs[1],
                         [ok |-> TRUE, main |-> main_deck, discard |-> DiscardAfter(cs),
                          hands |-> hands, recycled |-> FALSE],
                         index, dir, num_players)
        nxt == next_index(index, eff.dir, num_players, eff.skip)
    IN /\ active_cards' = act
       /\ active_color' \in get_active_color(act[Len(act)])
       /\ main_deck' = eff.st.main
       /\ discard_deck' = eff.st.discard
       /\ hands' = eff.st.hands
       /\ dir' = eff.dir
       /\ last' = [op |-> op, card |-> cs[1], by |-> index, recycled |-> eff.st.recycled]
       /\ IF ~eff.st.ok
          THEN pc' = "fatal" /\ index' = index /\ winner' = winner
          ELSE /\ index' = nxt
               /\ IF is_done(eff.st.hands[nxt])
                  THEN pc' = "done" /\ winner' = nxt
                  ELSE pc' = "loop" /\ winner' = winner

-----------------------------------------------------------------------------
(* player.py                                                               *)

\* get_playable_cards without the filter
get_playable_cards_all(hand, top, acolor) == hand

\* RandomAIPlayer.get_playable_cards
get_playable_cards(hand, top, acolor) ==
    SelectSeq(hand, LAMBDA c : is_valid_play(top, <<c>>, acolor))

\* What a move does to the hand when it picks card: the copies removed
MoveRemove(hand, card) == remove_cards(hand, card, 0)

-----------------------------------------------------------------------------
(* The state machine.                                                      *)

NoEvent == [op |-> "none", card |-> 0, by |-> 0, recycled |-> FALSE]

top_card == active_cards[Len(active_cards)]

\* Game.__init__ (and PlayerList.__init__, Deck.__init__)
Init ==
    /\ pc = "new"
    /\ \E g \in Games : num_players = g[1] /\ spec = g[2]
    /\ \E k \in 1..MaxShuffle : main_deck = shuffle(create_full_deck, k)
    /\ discard_deck = <<>>
    /\ active_cards = <<>>
    /\ active_color = None
    /\ hands = [i \in 0..(num_players - 1) |-> <<>>]
    /\ index = 0
    /\ dir = 1
    /\ ctr = 0
    /\ cards = <<>>
    /\ new_card = 0
    /\ shown = <<>>
    /\ last = NoEvent
    /\ winner = -1
    /\ result = None

\* Game.play, line 126: deal_cards()
DealCards ==
    /\ pc = "new"
    /\ LET st == deal_cards([ok |-> TRUE, main |-> main_deck, discard |-> discard_deck,
                             hands |-> hands, recycled |-> FALSE], num_players, index)
       IN /\ main_deck' = st.main
          /\ discard_deck' = st.discard
          /\ hands' = st.hands
          /\ pc' = IF st.ok THEN "dealt" ELSE "fatal"
    /\ UNCHANGED <<result, num_players, spec, active_cards, active_color, index, dir, ctr,
                   cards, new_card, shown, last, winner>>

\* the first card resolved like a played card: its effect applied, the
\* rotation updated
Reveal_with_effect ==
    /\ pc = "dealt"
    /\ LET r == draw_new_card(main_deck, discard_deck)
           eff == play_card(r.card,
                            [ok |-> TRUE, main |-> r.main, discard |-> r.discard,
                             hands |-> hands, recycled |-> FALSE],
                            index, dir, num_players)
       IN /\ main_deck' = eff.st.main
          /\ discard_deck' = eff.st.discard
          /\ hands' = eff.st.hands
          /\ dir' = eff.dir
          /\ index' = next_index(index, eff.dir, num_players, eff.skip)
          /\ IF r.ok /\ eff.st.ok
             THEN /\ active_cards' = Append(active_cards, r.card)
                  /\ active_color' \in get_active_color(r.card)
                  /\ pc' = "loop"
             ELSE /\ UNCHANGED <<active_cards, active_color>>
                  /\ pc' = "fatal"
    /\ ctr' = 0
    /\ UNCHANGED <<result, num_players, spec, cards, new_card, shown, last, winner>>

\* the first card drawn but not put on the active stack
Reveal_not_placed ==
    /\ pc = "dealt"
    /\ LET r == draw_new_card(main_deck, discard_deck)
       IN /\ main_deck' = r.main
          /\ discard_deck' = r.discard
          /\ UNCHANGED active_cards
          /\ IF r.ok
             THEN active_color' \in get_active_color(r.card) /\ pc' = "loop"
             ELSE UNCHANGED active_color /\ pc' = "fatal"
    /\ ctr' = 0
    /\ UNCHANGED <<result, num_players, spec, hands, index, dir, cards, new_card, shown,
                   last, winner>>

\* Game.play, lines 130-133: the first active card is revealed
Reveal ==
    /\ pc = "dealt"
    /\ LET r == draw_new_card(main_deck, discard_deck)
       IN /\ main_deck' = r.main
          /\ discard_deck' = r.discard
          /\ IF r.ok
             THEN /\ active_cards' = Append(active_cards, r.card)
                  /\ active_color' \in get_active_color(r.card)
                  /\ pc' = "loop"
             ELSE /\ UNCHANGED <<active_cards, active_color>>
                  /\ pc' = "fatal"
    /\ ctr' = 0
    /\ UNCHANGED <<result, num_players, spec, hands, index, dir, cards, new_card, shown,
                   last, winner>>

\* Game.play, lines 135-143 with RandomAIPlayer.move
AIMove ==
    /\ pc = "loop"
    /\ spec = "ai"
    /\ ctr < MaxRounds
    /\ ctr' = ctr + 1
    /\ shown' = hands[index]
    /\ IF hands[index] = <<>>
       THEN pc' = "error" /\ UNCHANGED <<hands, cards>>
       ELSE LET playable_cards == get_playable_cards(hands[index], top_card, active_color)
            IN /\ pc' = "validate"
               /\ IF Len(playable_cards) = 0
                  THEN cards' = <<>> /\ UNCHANGED hands
                  ELSE \E i \in 1..Len(playable_cards) :
                          /\ cards' = <<playable_cards[i]>>
                          /\ hands' = [hands EXCEPT ![index] = MoveRemove(@, playable_cards[i])]
    /\ UNCHANGED <<result, num_players, spec, main_deck, discard_deck, active_cards,
                   active_color, index, dir, new_card, last, winner>>

\* Game.play, lines 135-143 with HumanPlayer.move; card_index is what
\* IO.read_card returns
HumanMove ==
    /\ pc = "loop"
    /\ spec = "human"
    /\ ctr < MaxHumanRounds
    /\ ctr' = ctr + 1
    /\ shown' = hands[index]
    /\ IF hands[index] = <<>>
       THEN pc' = "error" /\ UNCHANGED <<hands, cards>>
       ELSE LET hand == sort(hands[index])
            IN /\ pc' = "validate"
               /\ \E card_index \in -1..(Len(hand) - 1) :
                     IF card_index = -1
                     THEN cards' = <<>> /\ hands' = [hands EXCEPT ![index] = hand]
                     ELSE /\ cards' = <<hand[card_index + 1]>>
                          /\ hands' = [hands EXCEPT
                                         ![index] = MoveRemove(hand, hand[card_index + 1])]
    /\ UNCHANGED <<result, num_players, spec, main_deck, discard_deck, active_cards,
                   active_color, index, dir, new_card, last, winner>>

\* EndGame caught inside the loop: the game goes on with the next round
HumanQuit_swallowed ==
    /\ pc = "loop"
    /\ spec = "human"
    /\ ctr < MaxHumanRounds
    /\ hands[index] # <<>>
    /\ ctr' = ctr + 1
    /\ shown' = hands[index]
    /\ hands' = [hands EXCEPT ![index] = sort(@)]
    /\ pc' = "loop"
    /\ UNCHANGED <<result, num_players, spec, main_deck, discard_deck, active_cards,
                   active_color, index, dir, cards, new_card, last, winner>>

\* IO.read_card raises EndGame on 'q': it leaves HumanPlayer.move and Game.play
HumanQuit ==
    /\ pc = "loop"
    /\ spec = "human"
    /\ ctr < MaxHumanRounds
    /\ hands[index] # <<>>
    /\ ctr' = ctr + 1
    /\ shown' = hands[index]
    /\ hands' = [hands EXCEPT ![index] = sort(@)]
    /\ pc' = "quit"
    /\ UNCHANGED <<result, num_players, spec, main_deck, discard_deck, active_cards,
                   active_color, index, dir, cards, new_card, last, winner>>

\* Game.play, lines 145-149: the move is not valid
Reject ==
    /\ pc = "validate"
    /\ ~is_valid_play(top_card, cards, active_color)
    /\ hands' = [hands EXCEPT ![index] = player_add_cards(@, cards)]
    /\ ctr' = ctr - 1
    /\ last' = [op |-> "rejected", card |-> cards[1], by |-> index, recycled |-> FALSE]
    /\ pc' = "loop"
    /\ UNCHANGED <<result, num_players, spec, main_deck, discard_deck, active_cards,
                   active_color, index, dir, cards, new_card, shown, winner>>

\* Game.play, lines 151-153 and 164-167: the submitted card is played
Play ==
    /\ pc = "validate"
    /\ is_valid_play(top_card, cards, active_color)
    /\ Len(cards) > 0
    /\ execute_turn(cards, "played")
    /\ UNCHANGED <<result, num_players, spec, ctr, cards, new_card, shown>>

\* Game.play, lines 154-156: an empty move, a card is drawn
PassDraw ==
    /\ pc = "validate"
    /\ is_valid_play(top_card, cards, active_color)
    /\ Len(cards) = 0
    /\ LET r == draw_new_card(main_deck, discard_deck)
       IN /\ main_deck' = r.main
          /\ discard_deck' = r.discard
          /\ new_card' = r.card
          /\ last' = [op |-> "drew", card |-> r.card, by |-> index, recycled |-> r.recycled]
          /\ pc' = IF r.ok THEN "drawn" ELSE "fatal"
    /\ UNCHANGED <<result, num_players, spec, active_cards, active_color, hands, index, dir,
                   ctr, cards, shown, winner>>

\* Game.play, lines 157-159 and 164-167: the drawn card is played
PlayDrawn ==
    /\ pc = "drawn"
    /\ is_valid_play(top_card, <<new_card>>, active_color)
    /\ execute_turn(<<new_card>>, "played_drawn")
    /\ UNCHANGED <<result, num_players, spec, ctr, cards, new_card, shown>>

\* Game.play, lines 160-162 and 164-167: the drawn card goes to the hand
KeepDrawn ==
    /\ pc = "drawn"
    /\ ~is_valid_play(top_card, <<new_card>>, active_color)
    /\ hands' = [hands EXCEPT ![index] = player_add_card(@, new_card)]
    /\ last' = [op |-> "kept_drawn", card |-> new_card, by |-> index, recycled |-> FALSE]
    /\ IF is_done(hands'[index])
       THEN pc' = "done" /\ winner' = index
       ELSE pc' = "loop" /\ winner' = winner
    /\ UNCHANGED <<result, num_players, spec, main_deck, discard_deck, active_cards,
                   active_color, index, dir, ctr, cards, new_card, shown>>

Next ==
    \/ DealCards
    \/ Reveal
    \/ AIMove
    \/ HumanMove
    \/ HumanQuit
    \/ Reject
    \/ Play
    \/ PassDraw
    \/ PlayDrawn
    \/ KeepDrawn

Spec == Init /\ [][Next]_vars

-----------------------------------------------------------------------------
(* Card.is_valid_play called on its own: the top card is active_cards[1],  *)
(* the arguments are cards and active_color, result is what the call gave. *)

\* the variables of the game that a call on its own does not touch
GameIdle ==
    /\ spec = "ai"
    /\ main_deck = <<>>
    /\ discard_deck = <<>>
    /\ hands = [i \in 0..(num_players - 1) |-> <<>>]
    /\ ctr = 0
    /\ new_card = 0
    /\ shown = <<>>
    /\ last = NoEvent
    /\ winner = -1

\* the distinct cards of Deck.create_full_deck
DeckCards == {create_full_deck[i] : i \in 1..DeckSize}

\* the lists played: nothing, or up to MaxPlayed copies of one card
PlayedLists == {<<>>} \cup {[i \in 1..k |-> c] : c \in DeckCards, k \in 1..MaxPlayed}

ValidInit ==
    /\ pc = "call"
    /\ \E top \in DeckCards : active_cards = <<top>>
    /\ active_color \in {ColorList[i] : i \in 1..Len(ColorList)} \cup {None}
    /\ cards \in PlayedLists
    /\ result = None
    /\ num_players = 2
    /\ index = 0
    /\ dir = 1
    /\ GameIdle

\* top_card.is_valid_play(cards, active_color)
CallIsValidPlay ==
    /\ pc = "call"
    /\ result' = is_valid_play_outcome(top_card, cards, active_color)
    /\ pc' = "returned"
    /\ UNCHANGED <<num_players, spec, main_deck, discard_deck, active_cards, active_color,
                   hands, index, dir, ctr, cards, new_card, shown, last, winner>>

ValidNext == CallIsValidPlay

ValidSpec == ValidInit /\ [][ValidNext]_vars

-----------------------------------------------------------------------------
(* PlayerList on its own: result is the list of the operations applied.    *)

RotationInit ==
    /\ pc = "rotation"
    /\ num_players \in 2..MaxPlayers
    /\ index = 0
    /\ dir = 1
    /\ result = <<>>
    /\ active_cards = <<>>
    /\ active_color = None
    /\ cards = <<>>
    /\ GameIdle

\* PlayerList.update(skip)
Update ==
    /\ Len(result) < MaxOps
    /\ \E skip \in BOOLEAN :
          /\ index' = next_index(index, dir, num_players, skip)
          /\ result' = Append(result, IF skip THEN "skip" ELSE "advance")
    /\ UNCHANGED <<pc, num_players, spec, main_deck, discard_deck, active_cards,
                   active_color, hands, dir, ctr, cards, new_card, shown, last, winner>>

\* PlayerList.flip_direction()
FlipDirection ==
    /\ Len(result) < MaxOps
    /\ dir' = flip_direction(dir)
    /\ result' = Append(result, "reverse")
    /\ UNCHANGED <<pc, num_players, spec, main_deck, discard_deck, active_cards,
                   active_color, hands, index, ctr, cards, new_card, shown, last, winner>>

RotationNext == Update \/ FlipDirection

RotationSpec == RotationInit /\ [][RotationNext]_vars

-----------------------------------------------------------------------------
(* Properties.                                                             *)

RECURSIVE SumHands(_)
SumHands(n) == IF n = 0 THEN 0 ELSE Len(hands[n - 1]) + SumHands(n - 1)

\* all the cards the game holds
TotalCards ==
    SumHands(num_players) + Len(main_deck) + Len(discard_deck) + Len(active_cards)

\* a card has just been put on the active stack and its effect carried out
Played == (Play \/ PlayDrawn) /\ pc' # "fatal"

\* C1: at every turn boundary of Game.play (after the reveal and after every
\* accepted move, rejected move or pass) the hands, the draw pile, the
\* discard pile and the active stack hold 108 cards together.
C1_Conservation == pc \in {"loop", "done"} => TotalCards = 108

\* C2: when the player who played has an empty hand once the play's effects
\* are resolved, the game ends in that same turn with that player reported
\* as the winner.
C2_WinDetection ==
    [][(Played /\ hands'[index] = <<>>) => (pc' = "done" /\ winner' = index)]_vars

\* C3: a Reverse played with more than 2 players flips the direction, and
\* the next player to move is the seat before the player in the old direction.
C3_ReverseFlips ==
    [][(Played /\ id(last'.card) = "reverse" /\ num_players > 2)
         => (dir' = -dir /\ index' = (index - dir) % num_players)]_vars

\* C4: a pass whose drawn card is not a valid play ends the turn: the
\* rotation advances by 1 and the next player is asked for the next move.
C4_PassEndsTurn ==
    [][KeepDrawn => (pc' = "loop" /\ index' = (index + dir) % num_players)]_vars

\* C5: a rejected move leaves the hand as it was when the move was requested,
\* the piles, the active stack and color, the rotation and the round counter
\* unchanged, and the same player is asked again.
C5_RejectUnchanged ==
    [][Reject => (/\ hands' = [hands EXCEPT ![index] = shown]
                  /\ UNCHANGED <<main_deck, discard_deck, active_cards, active_color,
                                 index, dir>>
                  /\ ctr' = ctr - 1
                  /\ pc' = "loop")]_vars

\* C6: a move returns 0 or 1 cards; with one card exactly that one card
\* leaves the hand (one copy, the others stay), with none the hand is unchanged.
C6_MoveContract ==
    [][((AIMove \/ HumanMove) /\ pc' = "validate")
         => (/\ Len(cards') <= 1
             /\ Len(cards') = 1 =>
                  (/\ Len(hands'[index]) = Len(hands[index]) - 1
                   /\ hands' = [hands EXCEPT ![index] = ListRemove(@, cards'[1])])
             /\ Len(cards') = 0 => hands' = hands)]_vars

\* the number of cards DrawTwo / WildDrawFour make the next player draw
DrawCount(c) == IF id(c) = "draw2" THEN 2 ELSE IF id(c) = "draw4" THEN 4 ELSE 0

\* C7: when DrawTwo (WildDrawFour) is played and the draw and discard piles
\* hold enough cards, the next player's hand grows by exactly 2 (4), no other
\* hand grows, and the rotation advances by 2; with 2 players the turn
\* returns to the player who played.
C7_DrawEffect ==
    [][((Play \/ PlayDrawn) /\ DrawCount(last'.card) > 0
          /\ Len(main_deck) + Len(discard_deck) >= DrawCount(last'.card))
         => LET nxt == (index + dir) % num_players IN
            /\ pc' \in {"loop", "done"}
            /\ Len(hands'[nxt]) = Len(hands[nxt]) + DrawCount(last'.card)
            /\ \A p \in 0..(num_players - 1) : p # nxt => Len(hands'[p]) <= Len(hands[p])
            /\ index' = (index + 2 * dir) % num_players
            /\ index' # nxt
            /\ num_players = 2 => index' = index]_vars

C7_Witness ==
    /\ pc = "loop"
    /\ last.op \in {"played", "played_drawn"}
    /\ id(last.card) = "draw2"
    /\ num_players = 2
    /\ index = last.by
    /\ Len(hands[1 - last.by]) >= NumCards + 2

\* the Skip card of card's color
SkipLike(card) == 100 * card_color(card) + ACTION_CARDS.skip

\* C8: with 2 players a Reverse leaves the same player to move next, and the
\* same direction, as a Skip played from that state: the player who played.
C8_ReverseAsSkip ==
    [][(Played /\ num_players = 2 /\ id(last'.card) = "reverse")
         => LET asSkip == play_card(SkipLike(last'.card),
                                    [ok |-> TRUE, main |-> main_deck, discard |-> discard_deck,
                                     hands |-> hands, recycled |-> FALSE],
                                    index, dir, num_players)
            IN /\ index' = next_index(index, asSkip.dir, num_players, asSkip.skip)
               /\ dir' = asSkip.dir
               /\ index' = index]_vars

C8_Witness ==
    /\ pc \in {"loop", "done"}
    /\ last.op \in {"played", "played_drawn"}
    /\ id(last.card) = "reverse"
    /\ num_players = 2
    /\ index = last.by

\* C9: a Skip advances the rotation by 2, so the player right after the
\* current one takes no turn, and no hand changes by the play.
C9_SkipEffect ==
    [][(Played /\ id(last'.card) = "skip")
         => (/\ index' = (index + 2 * dir) % num_players
             /\ index' # (index + dir) % num_players
             /\ \A p \in 0..(num_players - 1) : p # index => hands'[p] = hands[p])]_vars

C9_Witness ==
    /\ pc \in {"loop", "done"}
    /\ last.op \in {"played", "played_drawn"}
    /\ id(last.card) = "skip"
    /\ num_players > 2
    /\ index = (last.by + 2 * dir) % num_players

-----------------------------------------------------------------------------

\* the draws a step of the game needs that the two piles together cannot give
DrawOnEmpty ==
    \/ PassDraw /\ main_deck = <<>> /\ discard_deck = <<>>
    \/ Play /\ DrawCount(cards[1]) > Len(main_deck) + Len(discard_deck)
    \/ PlayDrawn /\ DrawCount(new_card) > Len(main_deck) + Len(discard_deck)
    \/ DealCards /\ NumCards * num_players > Len(main_deck)
    \/ Reveal /\ main_deck = <<>> /\ discard_deck = <<>>

\* C11: a draw attempted when both piles are (or have run) empty fails: the
\* game stops where it is, without a winner, both piles are empty afterwards
\* and no step follows the failure.
C11_EmptyPilesFatal ==
    [][/\ pc # "fatal"
       /\ DrawOnEmpty => (/\ pc' = "fatal"
                          /\ main_deck' = <<>>
                          /\ discard_deck' = <<>>
                          /\ winner' = -1)]_vars

C11_Witness ==
    /\ pc = "fatal"
    /\ last.op \in {"played", "played_drawn", "drew"}
    /\ main_deck = <<>>
    /\ discard_deck = <<>>
    /\ winner = -1

\* C12: once a card lies on the active stack the active color is one of the
\* four colors; it is the top card's own color unless the top card is wild.
C12_ActiveColor ==
    active_cards # <<>> =>
        /\ active_color \in {"red", "green", "blue", "yellow"}
        /\ ~is_wild(top_card) => active_color = color(top_card)

C12_Witness ==
    /\ pc = "loop"
    /\ last.op = "played"
    /\ last.card = top_card
    /\ is_wild(top_card)
    /\ active_color = "blue"

\* what a call of is_valid_play gives when it neither raises nor accepts
Refused == {"False", "None"}

\* C13: is_valid_play accepts the empty list, raises NotImplementedError for
\* more than one card, accepts every wild card; on a wild top card it accepts
\* another card iff its color is the active color and raises ValueError when
\* the active color is None; otherwise it accepts iff the card has the top
\* card's color or rank.
C13_ValidityRule ==
    pc = "returned" =>
        /\ Len(cards) = 0 => result = "True"
        /\ Len(cards) > 1 => result = "NotImplementedError"
        /\ Len(cards) = 1 =>
             LET c == cards[1] IN
             /\ is_wild(c) => result = "True"
             /\ (~is_wild(c) /\ is_wild(top_card) /\ active_color = None)
                   => result = "ValueError"
             /\ (~is_wild(c) /\ is_wild(top_card) /\ active_color # None)
                   => /\ result \in {"True"} \cup Refused
                      /\ result = "True" <=> color(c) = active_color
             /\ (~is_wild(c) /\ ~is_wild(top_card))
                   => /\ result \in {"True"} \cup Refused
                      /\ result = "True" <=> (\/ color(c) = color(top_card)
                                              \/ id(c) = id(top_card))

C13_Witness ==
    /\ pc = "returned"
    /\ is_wild(top_card)
    /\ Len(cards) = 1
    /\ ~is_wild(cards[1])
    /\ active_color = None
    /\ result = "ValueError"

\* C14: two cards of the deck with the same color, or with the same rank,
\* are valid plays on each other, the active color being that of the card
\* played on.
C14_ValiditySymmetry ==
    (pc = "returned" /\ Len(cards) = 1) =>
        LET A == cards[1]
            B == top_card
        IN (color(A) = color(B) \/ id(A) = id(B)) =>
              /\ active_color = color(B) => result = "True"
              /\ is_valid_play_outcome(A, <<B>>, color(A)) = "True"

C14_Witness ==
    /\ pc = "returned"
    /\ Len(cards) = 1
    /\ id(cards[1]) = id(top_card)
    /\ color(cards[1]) # color(top_card)
    /\ is_action(top_card)
    /\ active_color = color(top_card)
    /\ result = "True"

\* C15: update(skip) moves the index to (index + dir * (2 if skip else 1))
\* mod the player count, so the index stays in 0..player count - 1 whatever
\* updates and flips are applied; with 3 players, from index 0, three plain
\* updates come back to 0 and one skipping update gives 2.
C15_Rotation ==
    /\ [](/\ index \in 0..(num_players - 1)
          /\ (num_players = 3 /\ result = <<"advance", "advance", "advance">>)
                => index = 0
          /\ (num_players = 3 /\ result = <<"skip">>) => index = 2)
    /\ [][/\ result' = Append(result, "advance")
             => index' = (index + dir * 1) % num_players
          /\ result' = Append(result, "skip")
             => index' = (index + dir * 2) % num_players]_vars

C15_Witness ==
    /\ pc = "rotation"
    /\ num_players = 3
    /\ result = <<"advance", "advance", "advance">>
    /\ index = 0

\* C16: when the first move is about to be requested every player holds 7
\* cards, the active stack is the one revealed card, the discard pile is
\* empty, the draw pile holds 108 - 7n - 1 cards and the active color is set.
C16_Dealing ==
    (pc = "loop" /\ last = NoEvent) =>
        /\ \A p \in 0..(num_players - 1) : Len(hands[p]) = 7
        /\ Len(active_cards) = 1
        /\ discard_deck = <<>>
        /\ Len(main_deck) = 108 - 7 * num_players - 1
        /\ active_color \in {"red", "green", "blue", "yellow"}
        /\ ctr = 0

C16_Witness ==
    /\ pc = "loop"
    /\ last = NoEvent
    /\ num_players = 15
    /\ Len(main_deck) = 2
    /\ \A p \in 0..14 : Len(hands[p]) = 7

\* C17: a quit at the move prompt stops the game: no winner, no step after
\* it, and the hands, both piles, the active stack, the active color and the
\* rotation are those of the moment the move was requested.
C17_Quit ==
    [][/\ pc # "quit"
       /\ HumanQuit => (/\ pc' = "quit"
                        /\ winner' = -1
                        /\ hands' = hands
                        /\ shown' = hands'[index']
                        /\ main_deck' = main_deck
                        /\ discard_deck' = discard_deck
                        /\ active_cards' = active_cards
                        /\ active_color' = active_color
                        /\ index' = index
                        /\ dir' = dir)]_vars

C17_Witness ==
    /\ pc = "quit"
    /\ ctr >= 2
    /\ winner = -1
    /\ shown = hands[index]
    /\ last.op \in {"played", "played_drawn"}

\* the validity rule, for one card c on the top card under the active color
LegalOn(top, c, acolor) ==
    \/ is_wild(c)
    \/ is_wild(top) /\ color(c) = acolor
    \/ ~is_wild(top) /\ (color(c) = color(top) \/ id(c) = id(top))

\* C18: every card put on the active stack after the first, submitted by a
\* player or played straight after being drawn, was a valid play on the top
\* card and active color in force just before.
C18_OnlyLegalCards ==
    [][(Play \/ PlayDrawn) =>
          /\ top_card' = last'.card
          /\ LegalOn(top_card, last'.card, active_color)
          /\ is_valid_play(top_card, <<last'.card>>, active_color)]_vars

C18_Witness ==
    /\ spec = "human"
    /\ last.op = "played"
    /\ top_card = last.card
    /\ ~is_wild(last.card)
    /\ Len(active_cards) = 1
    /\ discard_deck # <<>>
    /\ is_wild(discard_deck[Len(discard_deck)])

C20_AIStrategy ==
    [][/\ (AIMove /\ pc' = "validate") =>
            LET hand == hands[index]
                legal == {i \in 1..Len(hand) : LegalOn(top_card, hand[i], active_color)}
            IN /\ cards' = <<>> <=> legal = {}
               /\ cards' # <<>> => /\ Len(cards') = 1
                                   /\ \E i \in legal : hand[i] = cards'[1]
       /\ Reject => spec # "ai"]_vars

C20_Witness ==
    /\ spec = "ai"
    /\ pc = "validate"
    /\ cards = <<>>
    /\ last.op = "played"
    /\ \E i \in 1..Len(hands[index]) : hands[index][i] # hands[index][1]

-----------------------------------------------------------------------------

\* the cards that make play_card raise the skip flag for n players
SkipsNext(c, n) ==
    \/ id(c) \in {"skip", "draw2", "draw4"}
    \/ id(c) = "reverse" /\ n = 2

\* C21: an empty move makes the engine draw exactly one card.  A drawn card
\* that is a valid play goes on the active stack without entering the hand,
\* the active color is recomputed, the card's effect is applied (Skip skips
\* the next player, Reverse flips the direction or skips with two players,
\* DrawTwo / WildDrawFour make the next player draw and skip it) and the
\* rotation advances; any other drawn card is added to the hand, and the
\* active stack, the active color, the discard pile and the other hands stay.
C21_PassHandling ==
    [][/\ (PassDraw /\ pc' = "drawn") =>
             /\ Len(main_deck') + Len(discard_deck') =
                   Len(main_deck) + Len(discard_deck) - 1
             /\ hands' = hands
             /\ active_cards' = active_cards
             /\ active_color' = active_color
       /\ (PlayDrawn /\ pc' # "fatal") =>
             LET c == new_card
                 nxt == (index + dir) % num_players
             IN /\ top_card' = c
                /\ hands'[index] = hands[index]
                /\ ~is_wild(c) => active_color' = color(c)
                /\ active_color' \in {"red", "green", "blue", "yellow"}
                /\ \A p \in 0..(num_players - 1) :
                      Len(hands'[p]) = Len(hands[p]) + (IF p = nxt THEN DrawCount(c) ELSE 0)
                /\ dir' = IF id(c) = "reverse" /\ num_players > 2 THEN -dir ELSE dir
                /\ index' = (index + dir' * (IF SkipsNext(c, num_players) THEN 2 ELSE 1))
                               % num_players
       /\ KeepDrawn =>
             /\ hands'[index] = SortInsert(hands[index], new_card)
             /\ Len(hands'[index]) = Len(hands[index]) + 1
             /\ \A p \in 0..(num_players - 1) : p # index => hands'[p] = hands[p]
             /\ active_cards' = active_cards
             /\ active_color' = active_color
             /\ discard_deck' = discard_deck]_vars

\* C22: whenever a move is requested the current player holds a card; the
\* "hand is empty" error of move is never raised.
C22_MoveHandNonEmpty ==
    /\ [](pc # "error")
    /\ [][(AIMove \/ HumanMove \/ HumanQuit) => hands[index] # <<>>]_vars

C22_Witness ==
    /\ pc = "validate"
    /\ shown # <<>>
    /\ \E p \in 0..(num_players - 1) : p # index /\ hands[p] = <<>>

\* C23: from the reveal of the first card on, the active stack holds a card,
\* whatever plays, passes, rejections and recycles of the discard pile follow.
C23_ActiveStackNonEmpty ==
    (pc \notin {"new", "dealt"} /\ ~(pc = "fatal" /\ last = NoEvent)) => active_cards # <<>>

C23_Witness ==
    /\ pc \in {"loop", "drawn"}
    /\ last.recycled
    /\ discard_deck = <<>>
    /\ main_deck # <<>>
    /\ active_cards # <<>>

\* C24: when the loop ends normally the player reported as done is the
\* current player of the rotation and holds no card.
C24_DoneReport ==
    pc = "done" => (winner = index /\ hands[winner] = <<>>)

C24_Witness ==
    /\ pc = "done"
    /\ winner = index
    /\ hands[index] = <<>>
    /\ \A p \in 0..(num_players - 1) : p # index => hands[p] # <<>>

\* C25: revealing the first active card has no effect, whatever its rank: no
\* hand changes, the rotation neither advances nor turns, and the first move
\* is requested from seat 0 with direction +1.
C25_RevealNoEffect ==
    /\ [][Reveal => (hands' = hands /\ index' = index /\ dir' = dir)]_vars
    /\ []((pc = "loop" /\ last = NoEvent) =>
             /\ index = 0
             /\ dir = 1
             /\ \A p \in 0..(num_players - 1) : Len(hands[p]) = NumCards)

C25_Witness ==
    /\ pc = "validate"
    /\ ctr = 1
    /\ last = NoEvent
    /\ Len(active_cards) = 1
    /\ id(top_card) \in {"skip", "reverse", "draw2", "draw4"}
    /\ index = 0
    /\ dir = 1

====
